---- MODULE Spec2Model ----
(***************************************************************************)
(* A model of the protocol-translating API gateway: the credential store   *)
(* (KV namespace API_KEYS), the quota counters (KV namespace RATE_LIMITS), *)
(* the authentication and rate-limit middleware, the key-management and    *)
(* chat handlers, and the two stream transducers.                          *)
(*                                                                         *)
(* Every await of the source is one step of a request process, so that     *)
(* concurrent requests interleave exactly where the worker can switch      *)
(* between them.  SeqSpec runs requests one at a time, Spec runs them      *)
(* concurrently, StreamSpec runs one streaming response.                   *)
(***************************************************************************)
EXTENDS Integers, Sequences, FiniteSets, TLC

(***************************************************************************)
(* Bounds of the model.                                                    *)
(***************************************************************************)
NumProcs == 2
MaxKeys == 2
MaxRequests == 3
MaxTick == 1
MaxFrags == 3

(***************************************************************************)
(* Program constants.                                                      *)
(***************************************************************************)
MAX_REQUESTS_PER_MINUTE == 60
MAX_REQUESTS_PER_HOUR == 1000
MAX_REQUESTS_PER_DAY == 10000
MinuteMs == 1000 * 60
HourMs == 1000 * 60 * 60
DayMs == 1000 * 60 * 60 * 24
MinuteTtl == 60
HourTtl == 3600
DayTtl == 86400
BootstrapListLimit == 1
DefaultListLimit == 50

\* The clock advances in steps of one minute.
TickMs == MinuteMs

Procs == 1..NumProcs
Kinds == {"minute", "hour", "day"}

\* An absent optional number (undefined in the source), and Not-a-Number.
Undefined == 0 - 1
NaN == 0 - 2

Max(a, b) == IF a >= b THEN a ELSE b

(***************************************************************************)
(* Credentials.  nanoid() values are numbers 1..MaxKeys; the secret        *)
(* 'pk-<nanoid>' of a credential and its index entry 'id:<id>' are names   *)
(* of the same KV namespace.                                               *)
(***************************************************************************)
Name(pfx, n) == [pfx |-> pfx, n |-> n]
PkName(n) == Name("pk-", n)
IdName(n) == Name("id:", n)

NoToken == Name("", 0)
GarbageToken == Name("sk-", 0)

RateLimitOf(m, h, d) ==
  [requestsPerMinute |-> m, requestsPerHour |-> h, requestsPerDay |-> d]

DefaultRateLimit ==
  RateLimitOf(MAX_REQUESTS_PER_MINUTE, MAX_REQUESTS_PER_HOUR, MAX_REQUESTS_PER_DAY)

NoAPIKey ==
  [id |-> 0, name |-> "", key |-> 0, permissions |-> {}, createdAt |-> Undefined,
   lastUsed |-> Undefined, rateLimit |-> RateLimitOf(Undefined, Undefined, Undefined),
   isActive |-> FALSE]

\* A value of API_KEYS: the JSON of a credential, or a plain string naming a secret.
JsonValue(apiKey) == [tag |-> "json", apiKey |-> apiKey, text |-> 0]
TextValue(n) == [tag |-> "text", apiKey |-> NoAPIKey, text |-> n]

VARIABLES
  apiKeys,     \* KV namespace API_KEYS: name -> value
  rateLimits,  \* KV namespace RATE_LIMITS: counter name -> [count, expiresAt]
  clock,       \* Date.now(), in milliseconds
  nreq,        \* number of requests received so far
  pc,          \* per request process: the await it is at
  req,         \* per request process: the request
  ctx,         \* per request process: context values and locals
  resp,        \* per request process: status of the response (0: none yet)
  code,        \* per request process: error code of the response ("": none)
  respKeys,    \* per request process: the secrets in the JSON of the response
  shown,       \* the secrets that some response has carried so far
  hdrs,        \* per request process: quota headers set on the response
  admitted,    \* per credential id: requests admitted into the minute bucket of clock
  upstream,    \* the fragments the upstream iterator will yield
  pos,         \* number of fragments pulled so far
  format,      \* "openai" or "claude"
  isFirst,     \* the transducer's only state
  out,         \* events enqueued on the client stream
  closed,      \* the client stream was closed
  failAt,      \* number of fragments read before the upstream body read rejects
  iter,        \* the read loop: "running", "failed", "thrown" or "stopped"
  cancelAt,    \* chunks pulled when the client disconnected (Undefined: connected)
  chatRequest,    \* the validated body of a chat request
  chatStage,      \* how far its handler is
  validatedModel, \* the handler's validateModel(request.model)
  prompt,         \* what the request transformer returned as prompt
  options,        \* ... and as options
  outcome,        \* what the upstream call will meet
  payload,        \* the arguments prepared for the upstream call
  upstreamMessage, \* the message in the upstream result: its text and tool_calls
  puterResponse,  \* what puterClient.chat returned
  chatResponse,   \* the response of the handler
  quotaLimits,    \* the limits handed to checkRateLimit and getRateLimitStatus
  quotaDecision,  \* what checkRateLimit returned, with the counts it read
  quotaStatus     \* what getRateLimitStatus returned

gatewayVars ==
  <<apiKeys, rateLimits, clock, nreq, pc, req, ctx, resp, code, respKeys, shown, hdrs,
    admitted>>
streamVars == <<upstream, pos, format, isFirst, out, closed, failAt, iter, cancelAt>>
chatVars ==
  <<chatRequest, chatStage, validatedModel, prompt, options, outcome, payload, upstreamMessage,
    puterResponse, chatResponse>>
limitVars == <<quotaLimits, quotaDecision, quotaStatus>>
vars == <<apiKeys, rateLimits, clock, nreq, pc, req, ctx, resp, code, respKeys, shown, hdrs,
          admitted,
          upstream, pos, format, isFirst, out, closed, failAt, iter, cancelAt,
          chatRequest, chatStage, validatedModel, prompt, options, outcome, payload,
          upstreamMessage, puterResponse, chatResponse, quotaLimits, quotaDecision, quotaStatus>>

(***************************************************************************)
(* The KV store.                                                           *)
(***************************************************************************)
KVHas(store, name) == name \in DOMAIN store

KVPut(store, name, value) ==
  [k \in DOMAIN store \cup {name} |-> IF k = name THEN value ELSE store[k]]

KVDelete(store, name) == [k \in DOMAIN store \ {name} |-> store[k]]

\* Keys are listed in lexicographic order of their names: 'id:...' sorts before 'pk-...'.
\* 'health-check' sorts before them and 'readiness-check' after them.
PrefixRank(pfx) ==
  IF pfx = "id:" THEN 1 ELSE IF pfx = "pk-" THEN 2 ELSE IF pfx = "readiness-check" THEN 3 ELSE 0
Rank(name) == PrefixRank(name.pfx) * (MaxKeys + 2) + name.n

RECURSIVE FirstNames(_, _)
FirstNames(S, k) ==
  IF S = {} \/ k <= 0 THEN <<>>
  ELSE LET m == CHOOSE x \in S : \A y \in S : Rank(x) <= Rank(y)
       IN  <<m>> \o FirstNames(S \ {m}, k - 1)

KVList(store, limit) == FirstNames(DOMAIN store, limit)

StoredSecrets == {n \in 1..MaxKeys : KVHas(apiKeys, PkName(n))}
StoredKey(n) == apiKeys[PkName(n)].apiKey

(***************************************************************************)
(* Requests.                                                               *)
(***************************************************************************)
Tokens == {NoToken, GarbageToken} \cup {PkName(n) : n \in 1..MaxKeys}

Routes ==
  {"POST /v1/chat/completions", "POST /v1/messages", "POST /v1/keys", "GET /v1/keys",
   "DELETE /v1/keys/:keyId", "GET /v1/keys/:keyId/usage", "GET /v1/keys/current",
   "GET /v1/models", "POST /v1/completions", "GET /v1/unknown",
   "GET /health", "GET /health/ready", "GET /health/live", "GET /metrics", "GET /v1/health"}

Request(route, token, body, keyId, permissions, rateLimit) ==
  [route |-> route, token |-> token, body |-> body, keyId |-> keyId,
   permissions |-> permissions, rateLimit |-> rateLimit]

NoRequest == Request("", NoToken, "valid", 0, {}, <<>>)

InitCtx ==
  [apiKey |-> NoAPIKey, keyData |-> NoAPIKey, now |-> 0, limit |-> 0, items |-> <<>>,
   found |-> <<>>, ret |-> "", boot |-> "", keyValue |-> 0,
   counts |-> [k \in Kinds |-> Undefined],
   inc |-> [k \in Kinds |-> "todo"],
   cur |-> [k \in Kinds |-> 0]]


SmallLimit == 2
PermChoices == {{"chat"}, {"chat", "admin"}}
LimitChoices ==
  {<<>>, <<RateLimitOf(SmallLimit, SmallLimit + 1, SmallLimit + 2)>>,
   <<RateLimitOf(SmallLimit, Undefined, Undefined)>>}

ChatRequests ==
  {Request(r, t, b, 0, {}, <<>>) :
     r \in {"POST /v1/chat/completions", "POST /v1/messages"}, t \in Tokens,
     b \in {"valid", "malformed"}}
CreateRequests ==
  {Request("POST /v1/keys", t, "valid", 0, ps, rl) :
     t \in Tokens, ps \in PermChoices, rl \in LimitChoices}
  \cup {Request("POST /v1/keys", t, "malformed", 0, {}, <<>>) : t \in Tokens}
KeyIdRequests ==
  {Request(r, t, "valid", k, {}, <<>>) :
     r \in {"DELETE /v1/keys/:keyId", "GET /v1/keys/:keyId/usage"}, t \in Tokens,
     k \in 1..MaxKeys}
PlainRequests ==
  {Request(r, t, "valid", 0, {}, <<>>) :
     r \in {"GET /v1/keys", "GET /v1/keys/current", "GET /v1/models",
            "POST /v1/completions", "GET /v1/unknown"}, t \in Tokens}
ProbeRequests ==
  {Request(r, t, "valid", 0, {}, <<>>) :
     r \in {"GET /health", "GET /health/ready", "GET /health/live", "GET /metrics",
            "GET /v1/health"}, t \in Tokens}

Requests ==
  ChatRequests \cup CreateRequests \cup KeyIdRequests \cup PlainRequests \cup ProbeRequests

\* Under interleaving the requests are those of one stored credential: chat, and its
\* own revocation.
ConcRequests ==
  {r \in Requests :
     /\ r.route \in {"POST /v1/chat/completions", "DELETE /v1/keys/:keyId"}
     /\ r.token = PkName(1) /\ r.body = "valid" /\ r.keyId \in {0, 1}}

\* The quota headers of a response: X-RateLimit-<group>-<kind> -> value.
QuotaHeader(group, kind) == [group |-> group, kind |-> kind]
NoHeaders == [h \in {} |-> 0]

(***************************************************************************)
(* Initial states: an empty store, or the store as the creation of a first *)
(* admin credential at time 0 leaves it.                                   *)
(***************************************************************************)
FirstKey ==
  [id |-> 1, name |-> "Admin Key", key |-> 1, permissions |-> {"chat", "admin"},
   createdAt |-> 0, lastUsed |-> Undefined,
   rateLimit |-> RateLimitOf(SmallLimit, SmallLimit + 1, SmallLimit + 2),
   isActive |-> TRUE]

EmptyStore == [k \in {} |-> TextValue(0)]
FirstStore == KVPut(KVPut(EmptyStore, PkName(1), JsonValue(FirstKey)), IdName(1), TextValue(1))

\* Values of the chat handler's locals before it has set them.
NoChatRequest == [format |-> "", model |-> "", system |-> "", hasSystem |-> FALSE, messages |-> <<>>]
NoPrompt == [isString |-> FALSE, text |-> "", messages |-> <<>>]
NoOptions == [model |-> ""]
NoPayload == [prepared |-> FALSE, messages |-> <<>>, model |-> ""]
\* message.tool_calls is optional: absent (undefined), or a list of tool calls.
NoToolCalls == [present |-> FALSE, list |-> <<>>]
ToolCalls(list) == [present |-> TRUE, list |-> list]

NoPuterResponse == [text |-> "", isError |-> FALSE, tool_calls |-> NoToolCalls]
NoUpstreamMessage == [text |-> "", tool_calls |-> NoToolCalls]
NoUsage == [prompt_tokens |-> 0, completion_tokens |-> 0, total_tokens |-> 0]
NoChatResponse ==
  [status |-> 0, type |-> "", content |-> "", model |-> "", tool_calls |-> NoToolCalls,
   reason |-> "", usage |-> NoUsage]

ChatIdle ==
  /\ chatRequest = NoChatRequest
  /\ chatStage = "idle"
  /\ validatedModel = ""
  /\ prompt = NoPrompt
  /\ options = NoOptions
  /\ outcome = "ok"
  /\ payload = NoPayload
  /\ upstreamMessage = NoUpstreamMessage
  /\ puterResponse = NoPuterResponse
  /\ chatResponse = NoChatResponse

\* Nothing was asked of checkRateLimit or getRateLimitStatus.
NoLimits == RateLimitOf(Undefined, Undefined, Undefined)
NoDecision ==
  [called |-> FALSE, allowed |-> FALSE, used |-> [k \in Kinds |-> 0],
   remaining |-> [k \in Kinds |-> 0], reset |-> [k \in Kinds |-> 0]]
NoStatus ==
  [called |-> FALSE, limits |-> NoLimits, used |-> [k \in Kinds |-> 0],
   remaining |-> [k \in Kinds |-> 0], reset |-> [k \in Kinds |-> 0]]

LimitIdle ==
  /\ quotaLimits = NoLimits
  /\ quotaDecision = NoDecision
  /\ quotaStatus = NoStatus

StreamIdle ==
  /\ upstream = <<>>
  /\ pos = 0
  /\ format = "openai"
  /\ isFirst = TRUE
  /\ out = <<>>
  /\ closed = FALSE
  /\ failAt = Undefined
  /\ iter = "running"
  /\ cancelAt = Undefined

GatewayInit ==
  /\ apiKeys \in {EmptyStore, FirstStore}
  /\ rateLimits = [k \in {} |-> [count |-> 0, expiresAt |-> 0]]
  /\ clock = 0
  /\ nreq = 0
  /\ pc = [p \in Procs |-> "idle"]
  /\ req = [p \in Procs |-> NoRequest]
  /\ ctx = [p \in Procs |-> InitCtx]
  /\ resp = [p \in Procs |-> 0]
  /\ code = [p \in Procs |-> ""]
  /\ respKeys = [p \in Procs |-> {}]
  /\ shown = StoredSecrets
  /\ admitted = [n \in 1..MaxKeys |-> 0]
  /\ hdrs = [p \in Procs |-> NoHeaders]

Init ==
  /\ GatewayInit
  /\ StreamIdle
  /\ ChatIdle
  /\ LimitIdle

(***************************************************************************)
(* Process steps.                                                          *)
(***************************************************************************)
Goto(p, label) == pc' = [pc EXCEPT ![p] = label]
\* The response is sent: the request's context and locals are gone.
RespondJson(p, status, errorCode, secrets) ==
  /\ pc' = [pc EXCEPT ![p] = "done"]
  /\ resp' = [resp EXCEPT ![p] = status]
  /\ code' = [code EXCEPT ![p] = errorCode]
  /\ respKeys' = [respKeys EXCEPT ![p] = secrets]
  /\ shown' = shown \cup secrets
  /\ ctx' = [ctx EXCEPT ![p] = InitCtx]
\* The 'key' members of the credentials serialised into a response.
SecretsOf(records) == {r.key : r \in records} \ {NoAPIKey.key}
RespondError(p, status, errorCode) == RespondJson(p, status, errorCode, {})
\* The error codes the middleware and the app give with each status; the handlers'
\* own codes are not told apart.
CodeOf(status) ==
  IF status = 429 THEN "rate_limit_exceeded"
  ELSE IF status = 500 THEN "internal_server_error"
  ELSE IF status = 410 THEN "endpoint_deprecated"
  ELSE ""
Respond(p, status) == RespondError(p, status, CodeOf(status))
Continue(p, label) == Goto(p, label) /\ UNCHANGED <<resp, code, respKeys, shown, ctx>>

\* Creation requests are received while the store has room for their credential.
InFlightCreations ==
  {q \in Procs : pc[q] \notin {"idle", "done"} /\ req[q].route = "POST /v1/keys"}

\* The routes registered before, and not matched by, app.use('/v1/*', ...): their
\* requests reach the handler through no authentication and no rate limiting.
UnguardedRoutes == {"GET /health", "GET /health/ready", "GET /health/live", "GET /metrics"}

\* A request arrives, one of at most max.
ReceiveWithin(p, r, max) ==
  /\ pc[p] \in {"idle", "done"}
  /\ nreq < max
  /\ r.route = "POST /v1/keys" =>
       Cardinality(StoredSecrets) + Cardinality(InFlightCreations) < MaxKeys
  /\ nreq' = nreq + 1
  /\ req' = [req EXCEPT ![p] = r]
  /\ ctx' = [ctx EXCEPT ![p] = InitCtx]
  /\ resp' = [resp EXCEPT ![p] = 0]
  /\ code' = [code EXCEPT ![p] = ""]
  /\ respKeys' = [respKeys EXCEPT ![p] = {}]
  /\ hdrs' = [hdrs EXCEPT ![p] = NoHeaders]
  /\ Goto(p, IF r.route \in UnguardedRoutes THEN "handler" ELSE "auth")
  /\ quotaStatus' = NoStatus
  /\ UNCHANGED <<apiKeys, rateLimits, clock, shown>>
  /\ UNCHANGED <<admitted, streamVars, chatVars, quotaLimits, quotaDecision>>

Receive(p, r) == ReceiveWithin(p, r, MaxRequests)

\* Time passes; the store drops the entries whose expirationTtl has run out.
Tick ==
  /\ clock < MaxTick * TickMs
  /\ clock' = clock + TickMs
  /\ rateLimits' = [k \in {n \in DOMAIN rateLimits : rateLimits[n].expiresAt > clock + TickMs}
                      |-> rateLimits[k]]
  /\ admitted' = [n \in 1..MaxKeys |-> 0]
  /\ UNCHANGED <<apiKeys, nreq, pc, req, ctx, resp, code, respKeys, shown>>
  /\ UNCHANGED <<hdrs, streamVars, chatVars, limitVars>>

(***************************************************************************)
(* authMiddleware                                                          *)
(***************************************************************************)
PublicRoutes == {"GET /v1/models", "GET /v1/health"}

\* An authMiddleware without the list of public paths.
NoPublicPath(route) == FALSE

IsPublicPath(route) == route \in PublicRoutes

\* A mapping that leaves the key-management routes to their handlers' own checks.
RequiredPermissionChatOnly(route) ==
  IF route \in {"POST /v1/chat/completions", "POST /v1/messages"} THEN "chat" ELSE ""

getRequiredPermission(route) ==
  IF route \in {"POST /v1/chat/completions", "POST /v1/messages"} THEN "chat"
  ELSE IF route \in {"POST /v1/keys", "GET /v1/keys", "DELETE /v1/keys/:keyId",
                     "GET /v1/keys/:keyId/usage", "GET /v1/keys/current"} THEN "admin"
  ELSE ""

\* Lines 293-312: take the token; without one answer 401; a token that does not
\* start with 'pk-' is invalid before any store access; otherwise look it up.
StandardAuth(p) ==
  IF req[p].token = NoToken THEN RespondError(p, 401, "missing_api_key")
  ELSE IF req[p].token.pfx # "pk-" THEN RespondError(p, 401, "invalid_api_key")
  ELSE Continue(p, "validate_get")

AuthEnter(p) ==
  /\ pc[p] = "auth"
  /\ IF IsPublicPath(req[p].route)
       THEN Continue(p, "ratelimit")
     ELSE IF req[p].route = "POST /v1/keys"
       THEN /\ Goto(p, "list")
            /\ ctx' = [ctx EXCEPT ![p].limit = BootstrapListLimit, ![p].ret = "boot"]
            /\ UNCHANGED <<resp, code, respKeys, shown>>
     ELSE StandardAuth(p)
  /\ UNCHANGED <<apiKeys, rateLimits, clock, nreq, req>>
  /\ UNCHANGED <<hdrs, admitted, streamVars, chatVars, limitVars>>


(***************************************************************************)
(* listAPIKeys: one list call, then one get per listed name that does not  *)
(* start with 'id:'.  Called by the bootstrap check (limit 1) and by the   *)
(* listing handler.                                                        *)
(***************************************************************************)
\* A destructuring that leaves the secret in the object.
KeepsSecret(apiKey) == apiKey

\* const { key, ...keyWithoutSecret } = apiKey
WithoutSecret(apiKey) == [apiKey EXCEPT !.key = NoAPIKey.key]

\* The creations that have completed: their last write, the id entry, is stored.
CompletedCreations == {n \in 1..MaxKeys : KVHas(apiKeys, IdName(n))}

\* How the bootstrap check of a request went: its list call was made before any
\* creation had completed ("early") or after one ("late"), or it threw ("threw");
\* "" outside the check.
BootCheck(p) ==
  IF ctx[p].ret # "boot" THEN ""
  ELSE IF CompletedCreations = {} THEN "early" ELSE "late"

ListCall(p) ==
  /\ pc[p] = "list"
  /\ ctx' = [ctx EXCEPT ![p].items = KVList(apiKeys, ctx[p].limit), ![p].found = <<>>,
                        ![p].boot = BootCheck(p)]
  /\ Goto(p, "list_get")
  /\ UNCHANGED <<apiKeys, rateLimits, clock, nreq, req, resp, code, respKeys, shown>>
  /\ UNCHANGED <<hdrs, admitted, streamVars, chatVars, limitVars>>

\* A catch that fails closed: the request is answered 500.
BootstrapCatchCloses(p) == RespondError(p, 500, "internal_server_error")

\* authMiddleware, lines 286-290: the catch around the bootstrap check calls next().
BootstrapCatch(p) ==
  /\ Goto(p, "ratelimit")
  /\ ctx' = [ctx EXCEPT ![p].boot = "threw"]
  /\ UNCHANGED <<resp, code, respKeys, shown>>

\* listAPIKeys, line 372: API_KEYS.list rejects.  It is outside the try of the loop, so
\* the caller's catch runs: that of the bootstrap check, or that of handleListAPIKeys
\* (500 key_listing_error).
ListCallThrows(p) ==
  /\ pc[p] = "list"
  /\ IF ctx[p].ret = "boot" THEN BootstrapCatch(p) ELSE RespondError(p, 500, "key_listing_error")
  /\ UNCHANGED <<apiKeys, rateLimits, clock, nreq, req>>
  /\ UNCHANGED <<hdrs, admitted, streamVars, chatVars, limitVars>>

\* The value read for a listed name, appended when it is there and parses.
ListedKeys(found, item) ==
  IF item.pfx = "id:" THEN found
  ELSE IF KVHas(apiKeys, item) /\ apiKeys[item].tag = "json"
    THEN Append(found, WithoutSecret(apiKeys[item].apiKey))
  ELSE found

ListItem(p) ==
  /\ pc[p] = "list_get"
  /\ ctx[p].items # <<>>
  /\ ctx' = [ctx EXCEPT ![p].items = Tail(ctx[p].items),
                        ![p].found = ListedKeys(ctx[p].found, Head(ctx[p].items))]
  /\ UNCHANGED <<apiKeys, rateLimits, clock, nreq, pc, req, resp, code, respKeys, shown>>
  /\ UNCHANGED <<hdrs, admitted, streamVars, chatVars, limitVars>>

\* Lines 281-285: no key listed lets the creation through without a credential.
BootstrapOpen(existingKeys) == Len(existingKeys) = 0

ListReturn(p) ==
  /\ pc[p] = "list_get"
  /\ ctx[p].items = <<>>
  /\ IF ctx[p].ret = "boot"
       THEN IF BootstrapOpen(ctx[p].found)
              THEN Continue(p, "ratelimit")
              ELSE StandardAuth(p)
       ELSE RespondJson(p, 200, "", SecretsOf({ctx[p].found[i] : i \in DOMAIN ctx[p].found}))
  /\ UNCHANGED <<apiKeys, rateLimits, clock, nreq, req>>
  /\ UNCHANGED <<hdrs, admitted, streamVars, chatVars, limitVars>>

(***************************************************************************)
(* validateAPIKey, and the rest of authMiddleware after it                 *)
(***************************************************************************)
\* A write-back that also resets the permissions of the record.
TouchedAndReset(apiKey, now) == [apiKey EXCEPT !.lastUsed = now, !.permissions = {"chat"}]

\* Lines 236-249: the record read, stamped with the time of use.
Touched(apiKey, now) == [apiKey EXCEPT !.lastUsed = now]

\* A validateAPIKey that takes every value read for an active credential.
NeverInactive(value) == FALSE

\* validateAPIKey, lines 241-246: the value read is not an active credential.
Inactive(value) == ~value.apiKey.isActive

ValidateGet(p) ==
  /\ pc[p] = "validate_get"
  /\ IF ~KVHas(apiKeys, req[p].token) THEN RespondError(p, 401, "invalid_api_key")
     ELSE IF Inactive(apiKeys[req[p].token]) THEN RespondError(p, 401, "invalid_api_key")
     ELSE /\ ctx' = [ctx EXCEPT ![p].keyData = Touched(apiKeys[req[p].token].apiKey, clock)]
          /\ Goto(p, "validate_put")
          /\ UNCHANGED <<resp, code, respKeys, shown>>
  /\ UNCHANGED <<apiKeys, rateLimits, clock, nreq, req>>
  /\ UNCHANGED <<hdrs, admitted, streamVars, chatVars, limitVars>>

HasPermission(apiKey, route) ==
  getRequiredPermission(route) = "" \/ getRequiredPermission(route) \in apiKey.permissions

ValidatePut(p) ==
  /\ pc[p] = "validate_put"
  /\ apiKeys' = KVPut(apiKeys, req[p].token, JsonValue(ctx[p].keyData))
  /\ IF ~HasPermission(ctx[p].keyData, req[p].route)
       THEN RespondError(p, 403, "insufficient_permissions")
       ELSE /\ ctx' = [ctx EXCEPT ![p].apiKey = ctx[p].keyData]
            /\ Goto(p, "ratelimit")
            /\ UNCHANGED <<resp, code, respKeys, shown>>
  /\ UNCHANGED <<rateLimits, clock, nreq, req>>
  /\ UNCHANGED <<hdrs, admitted, streamVars, chatVars, limitVars>>

\* validateAPIKey, line 250 and lines 253-256: the put of the record with its new
\* lastUsed rejects (the store is unavailable, or its write limit for one name is
\* exceeded); the catch around the whole function returns null, and authMiddleware
\* answers 401 invalid_api_key (lines 314-323).
ValidatePutThrows(p) ==
  /\ pc[p] = "validate_put"
  /\ RespondError(p, 401, "invalid_api_key")
  /\ UNCHANGED <<apiKeys, rateLimits, clock, nreq, req>>
  /\ UNCHANGED <<hdrs, admitted, streamVars, chatVars, limitVars>>

(***************************************************************************)
(* rateLimitMiddleware                                                     *)
(***************************************************************************)
\* The day bucket is the UTC calendar date, one per DayMs since the epoch.
Bucket(kind, now) ==
  IF kind = "minute" THEN now \div MinuteMs
  ELSE IF kind = "hour" THEN now \div HourMs
  ELSE now \div DayMs

\* Counter names that leave the credential out.
CounterNameShared(keyId, kind, now) == [id |-> 0, kind |-> kind, bucket |-> Bucket(kind, now)]

CounterName(keyId, kind, now) == [id |-> keyId, kind |-> kind, bucket |-> Bucket(kind, now)]

getRateLimitCount(name) == IF KVHas(rateLimits, name) THEN rateLimits[name].count ELSE 0

LimitOf(limits, kind) ==
  IF kind = "minute" THEN limits.requestsPerMinute
  ELSE IF kind = "hour" THEN limits.requestsPerHour
  ELSE limits.requestsPerDay

\* A comparison that admits one request more.
ExceededStrictly(count, limit) == limit # Undefined /\ count > limit

\* count >= limit in the source's arithmetic: never true of an undefined limit.
Exceeded(count, limit) == limit # Undefined /\ count >= limit

\* A difference that is not clamped at zero.
RemainingUnclamped(limit, count) == IF limit = Undefined THEN NaN ELSE limit - count

\* Math.max(0, limit - count); NaN for an undefined limit.
Remaining(limit, count) == IF limit = Undefined THEN NaN ELSE Max(0, limit - count)

\* Lines 104-150: the decision, and the window it names (minute, then hour, then day).
checkRateLimit(limits, counts) ==
  [allowed |-> \A k \in Kinds : ~Exceeded(counts[k], LimitOf(limits, k)),
   window |-> IF Exceeded(counts["minute"], limits.requestsPerMinute) THEN "minute"
              ELSE IF Exceeded(counts["hour"], limits.requestsPerHour) THEN "hour"
              ELSE IF Exceeded(counts["day"], limits.requestsPerDay) THEN "day"
              ELSE "",
   remaining |-> [k \in Kinds |-> Remaining(LimitOf(limits, k), counts[k])]]

\* Lines 111-116: the reset times of the three windows.
ResetTimes(now) ==
  [k \in Kinds |->
     IF k = "minute" THEN (Bucket("minute", now) + 1) * 60 * 1000
     ELSE IF k = "hour" THEN (Bucket("hour", now) + 1) * 60 * 60 * 1000
     ELSE (Bucket("day", now) + 1) * DayMs - 1]

\* The kinds in the order their headers are set.
KindsBefore(kind) ==
  IF kind = "minute" THEN {} ELSE IF kind = "hour" THEN {"minute"} ELSE {"minute", "hour"}

\* apiKey.rateLimit?.requestsPerX.toString() throws a TypeError on a rateLimit
\* object that lacks the field.
HeadersThrow(limits) == \E k \in Kinds : LimitOf(limits, k) = Undefined

\* Lines 40-42 and 57-59: the limit headers set before the one that throws, if any.
LimitHeaders(limits) ==
  [h \in {QuotaHeader("Limit", k) :
            k \in {x \in Kinds : \A y \in KindsBefore(x) \cup {x} : LimitOf(limits, y) # Undefined}}
     |-> LimitOf(limits, h.kind)]

\* Lines 60-62: the headers of an admitted request.
AdmittedHeaders(limits, remaining) ==
  IF HeadersThrow(limits) THEN LimitHeaders(limits)
  ELSE LimitHeaders(limits)
       @@ [h \in {QuotaHeader("Remaining", k) : k \in Kinds} |-> remaining[h.kind]]

\* Lines 40-48: the headers of a rejected request.
RejectedHeaders(limits, remaining, reset) ==
  IF HeadersThrow(limits) THEN LimitHeaders(limits)
  ELSE LimitHeaders(limits)
       @@ [h \in {QuotaHeader("Remaining", k) : k \in Kinds} |-> remaining[h.kind]]
       @@ [h \in {QuotaHeader("Reset", k) : k \in Kinds} |-> reset[h.kind]]

RateLimitEnter(p) ==
  /\ pc[p] = "ratelimit"
  /\ IF ctx[p].apiKey = NoAPIKey
       THEN Continue(p, "handler")
       ELSE /\ ctx' = [ctx EXCEPT ![p].now = clock]
            /\ Goto(p, "rl_check")
            /\ UNCHANGED <<resp, code, respKeys, shown>>
  /\ UNCHANGED <<apiKeys, rateLimits, clock, nreq, req>>
  /\ UNCHANGED <<hdrs, admitted, streamVars, chatVars, limitVars>>

\* checkRateLimit returns allowed: one more request is admitted into the minute
\* bucket of its time.
Admit(keyId, now) ==
  IF Bucket("minute", now) = Bucket("minute", clock)
    THEN [admitted EXCEPT ![keyId] = admitted[keyId] + 1]
    ELSE admitted

\* One of the three parallel reads of checkRateLimit; the last one to complete decides.
RateLimitRead(p, kind) ==
  /\ pc[p] = "rl_check"
  /\ ctx[p].counts[kind] = Undefined
  /\ LET counts == [ctx[p].counts EXCEPT
                      ![kind] = getRateLimitCount(CounterName(ctx[p].apiKey.id, kind, ctx[p].now))]
     IN  IF \E k \in Kinds : counts[k] = Undefined
           THEN /\ ctx' = [ctx EXCEPT ![p].counts = counts]
                /\ UNCHANGED <<pc, resp, code, respKeys, shown, hdrs, admitted>>
         ELSE IF checkRateLimit(ctx[p].apiKey.rateLimit, counts).allowed
           THEN /\ ctx' = [ctx EXCEPT ![p].counts = counts]
                /\ admitted' = Admit(ctx[p].apiKey.id, ctx[p].now)
                /\ Goto(p, "rl_inc")
                /\ UNCHANGED <<resp, code, respKeys, shown, hdrs>>
         ELSE /\ UNCHANGED admitted
              /\ hdrs' = [hdrs EXCEPT ![p] =
                            RejectedHeaders(ctx[p].apiKey.rateLimit,
                                            checkRateLimit(ctx[p].apiKey.rateLimit, counts).remaining,
                                            ResetTimes(ctx[p].now))]
              /\ IF HeadersThrow(ctx[p].apiKey.rateLimit)
                   THEN Respond(p, 500)
                   ELSE Respond(p, 429)
  /\ UNCHANGED <<apiKeys, rateLimits, clock, nreq, req>>
  /\ UNCHANGED <<streamVars, chatVars, limitVars>>

Ttl(kind) == IF kind = "minute" THEN MinuteTtl ELSE IF kind = "hour" THEN HourTtl ELSE DayTtl

\* incrementCounter, line 191: the read.
IncrementRead(p, kind) ==
  /\ pc[p] = "rl_inc"
  /\ ctx[p].inc[kind] = "todo"
  /\ ctx' = [ctx EXCEPT ![p].inc[kind] = "read",
                        ![p].cur[kind] = getRateLimitCount(CounterName(ctx[p].apiKey.id, kind, ctx[p].now))]
  /\ UNCHANGED <<apiKeys, rateLimits, clock, nreq, pc, req, resp, code, respKeys, shown>>
  /\ UNCHANGED <<hdrs, admitted, streamVars, chatVars, limitVars>>

\* incrementCounter, lines 192-196: the value written is the value read plus one.
Incremented(current) == current + 1

IncrementWrite(p, kind) ==
  /\ pc[p] = "rl_inc"
  /\ ctx[p].inc[kind] = "read"
  /\ rateLimits' = KVPut(rateLimits, CounterName(ctx[p].apiKey.id, kind, ctx[p].now),
                         [count |-> Incremented(ctx[p].cur[kind]),
                          expiresAt |-> clock + Ttl(kind) * 1000])
  /\ IF \A k \in Kinds \ {kind} : ctx[p].inc[k] = "done"
       THEN /\ hdrs' = [hdrs EXCEPT ![p] =
                          AdmittedHeaders(ctx[p].apiKey.rateLimit,
                                          checkRateLimit(ctx[p].apiKey.rateLimit,
                                                         ctx[p].counts).remaining)]
            /\ IF HeadersThrow(ctx[p].apiKey.rateLimit)
                 THEN Respond(p, 500)
                 ELSE /\ ctx' = [ctx EXCEPT ![p].inc[kind] = "done"]
                      /\ Goto(p, "handler")
                      /\ UNCHANGED <<resp, code, respKeys, shown>>
       ELSE /\ ctx' = [ctx EXCEPT ![p].inc[kind] = "done"]
            /\ UNCHANGED <<pc, resp, code, respKeys, shown, hdrs>>
  /\ UNCHANGED <<apiKeys, clock, nreq, req>>
  /\ UNCHANGED <<admitted, streamVars, chatVars, limitVars>>


(***************************************************************************)
(* Handlers                                                                *)
(***************************************************************************)
IsAdmin(apiKey) == apiKey # NoAPIKey /\ "admin" \in apiKey.permissions

\* generateAPIKey, lines 203-218: the record of a new credential.
NewAPIKey(n, r, now) ==
  [id |-> n, name |-> "key", key |-> n, permissions |-> r.permissions, createdAt |-> now,
   lastUsed |-> Undefined,
   rateLimit |-> IF r.rateLimit = <<>> THEN DefaultRateLimit ELSE r.rateLimit[1],
   isActive |-> TRUE]

\* nanoid() values already taken, by stored credentials or by creations under way.
TakenIds ==
  StoredSecrets \cup {ctx[q].keyData.id : q \in {x \in Procs : pc[x] \in {"gen_put_key", "gen_put_id"}}}

\* The handler up to its first store access.
Handler(p) ==
  /\ pc[p] = "handler"
  /\ LET route == req[p].route
         apiKey == ctx[p].apiKey
     IN  CASE route \in {"POST /v1/chat/completions", "POST /v1/messages"} ->
                IF req[p].body = "malformed"
                  THEN Respond(p, 400)
                  ELSE Continue(p, "upstream")
           [] route = "POST /v1/keys" ->
                IF req[p].body = "malformed"
                  THEN Respond(p, 400)
                  ELSE \E n \in (1..MaxKeys) \ TakenIds :
                         /\ ctx' = [ctx EXCEPT ![p].keyData = NewAPIKey(n, req[p], clock)]
                         /\ Goto(p, "gen_put_key")
                         /\ UNCHANGED <<resp, code, respKeys, shown>>
           [] route = "GET /v1/keys" ->
                IF ~IsAdmin(apiKey)
                  THEN Respond(p, 403)
                  ELSE /\ ctx' = [ctx EXCEPT ![p].limit = DefaultListLimit, ![p].ret = "handler"]
                       /\ Goto(p, "list")
                       /\ UNCHANGED <<resp, code, respKeys, shown>>
           [] route = "DELETE /v1/keys/:keyId" ->
                IF ~IsAdmin(apiKey)
                  THEN Respond(p, 403)
                  ELSE Continue(p, "revoke_get_id")
           [] route = "GET /v1/keys/:keyId/usage" ->
                IF apiKey = NoAPIKey \/ (~IsAdmin(apiKey) /\ apiKey.id # req[p].keyId)
                  THEN Respond(p, 403)
                  ELSE Continue(p, "usage_get_id")
           [] route = "GET /v1/keys/current" ->
                IF apiKey = NoAPIKey
                  THEN RespondError(p, 401, "missing_api_key")
                  ELSE RespondJson(p, 200, "", SecretsOf({WithoutSecret(apiKey)}))
           [] route = "GET /v1/models" -> Respond(p, 200)
           [] route \in {"GET /health", "GET /health/ready"} -> Continue(p, "probe_put")
           [] route \in {"GET /health/live", "GET /metrics"} -> Respond(p, 200)
           [] route = "POST /v1/completions" -> Respond(p, 410)
           [] OTHER -> Respond(p, 404)
  /\ UNCHANGED <<apiKeys, rateLimits, clock, nreq, req>>
  /\ UNCHANGED <<hdrs, admitted, streamVars, chatVars, limitVars>>

\* puterClient.chat: the upstream call of a chat request answers, or throws.
Upstream(p) ==
  /\ pc[p] = "upstream"
  /\ \E status \in {200, 500} : Respond(p, status)
  /\ UNCHANGED <<apiKeys, rateLimits, clock, nreq, req>>
  /\ UNCHANGED <<hdrs, admitted, streamVars, chatVars, limitVars>>

\* generateAPIKey, line 221
GeneratePutKey(p) ==
  /\ pc[p] = "gen_put_key"
  /\ apiKeys' = KVPut(apiKeys, PkName(ctx[p].keyData.key), JsonValue(ctx[p].keyData))
  /\ Continue(p, "gen_put_id")
  /\ UNCHANGED <<rateLimits, clock, nreq, req>>
  /\ UNCHANGED <<hdrs, admitted, streamVars, chatVars, limitVars>>

\* generateAPIKey, line 222, and the 201 of handleCreateAPIKey
GeneratePutId(p) ==
  /\ pc[p] = "gen_put_id"
  /\ apiKeys' = KVPut(apiKeys, IdName(ctx[p].keyData.id), TextValue(ctx[p].keyData.key))
  /\ RespondJson(p, 201, "", SecretsOf({ctx[p].keyData}))
  /\ UNCHANGED <<rateLimits, clock, nreq, req>>
  /\ UNCHANGED <<hdrs, admitted, streamVars, chatVars, limitVars>>

\* revokeAPIKey, line 398, and getAPIKeyUsage, line 434: the secret of the id.
LookupId(p, label, next) ==
  /\ pc[p] = label
  /\ IF ~KVHas(apiKeys, IdName(req[p].keyId))
       THEN Respond(p, 404)
       ELSE /\ ctx' = [ctx EXCEPT ![p].keyValue = apiKeys[IdName(req[p].keyId)].text]
            /\ Goto(p, next)
            /\ UNCHANGED <<resp, code, respKeys, shown>>
  /\ UNCHANGED <<apiKeys, rateLimits, clock, nreq, req>>
  /\ UNCHANGED <<hdrs, admitted, streamVars, chatVars, limitVars>>

RevokeGetId(p) == LookupId(p, "revoke_get_id", "revoke_get_key")

\* A revokeAPIKey that writes the record back as it read it.
NotRevoked(apiKey) == apiKey

\* revokeAPIKey, lines 409-410: the record read, made inactive.
Revoked(apiKey) == [apiKey EXCEPT !.isActive = FALSE]

RevokeGetKey(p) ==
  /\ pc[p] = "revoke_get_key"
  /\ IF ~KVHas(apiKeys, PkName(ctx[p].keyValue))
       THEN Respond(p, 404)
       ELSE /\ ctx' = [ctx EXCEPT ![p].keyData = Revoked(apiKeys[PkName(ctx[p].keyValue)].apiKey)]
            /\ Goto(p, "revoke_put")
            /\ UNCHANGED <<resp, code, respKeys, shown>>
  /\ UNCHANGED <<apiKeys, rateLimits, clock, nreq, req>>
  /\ UNCHANGED <<hdrs, admitted, streamVars, chatVars, limitVars>>

\* revokeAPIKey, line 413, and the 200 of handleRevokeAPIKey
RevokePut(p) ==
  /\ pc[p] = "revoke_put"
  /\ apiKeys' = KVPut(apiKeys, PkName(ctx[p].keyValue), JsonValue(ctx[p].keyData))
  /\ Respond(p, 200)
  /\ UNCHANGED <<rateLimits, clock, nreq, req>>
  /\ UNCHANGED <<hdrs, admitted, streamVars, chatVars, limitVars>>

UsageGetId(p) == LookupId(p, "usage_get_id", "usage_get_key")

\* Lines 97-102 and 245-249: the three counts read.
CountsRead(keyId, now) == [k \in Kinds |-> getRateLimitCount(CounterName(keyId, k, now))]

\* Lines 251-272: the status, from the limits, the counts read and the time.
getRateLimitStatus(lim, counts, now) ==
  [called |-> TRUE,
   limits |-> lim,
   used |-> counts,
   remaining |-> [k \in Kinds |-> Remaining(LimitOf(lim, k), counts[k])],
   reset |-> ResetTimes(now)]

\* getAPIKeyUsage, lines 439-465, and handleAPIKeyUsage, lines 209-236 of the key
\* handlers: reads only.  The status in the response is that of getRateLimitStatus
\* for the id of the path with the rateLimit of the credential of the request.
UsageGetKey(p) ==
  /\ pc[p] = "usage_get_key"
  /\ IF ~KVHas(apiKeys, PkName(ctx[p].keyValue))
       THEN Respond(p, 404) /\ UNCHANGED quotaStatus
       ELSE /\ quotaStatus' = getRateLimitStatus(ctx[p].apiKey.rateLimit,
                                                 CountsRead(req[p].keyId, clock), clock)
            /\ Respond(p, 200)
  /\ UNCHANGED <<apiKeys, rateLimits, clock, nreq, req>>
  /\ UNCHANGED <<hdrs, admitted, streamVars, chatVars, quotaLimits, quotaDecision>>

\* handleHealth, line 51, and handleReadiness, line 121: the probe entry is written.
ProbeName(route) ==
  IF route = "GET /health" THEN Name("health-check", 0) ELSE Name("readiness-check", 0)

ProbePut(p) ==
  /\ pc[p] = "probe_put"
  /\ apiKeys' = KVPut(apiKeys, ProbeName(req[p].route), TextValue(0))
  /\ Continue(p, "probe_delete")
  /\ UNCHANGED <<rateLimits, clock, nreq, req>>
  /\ UNCHANGED <<hdrs, admitted, streamVars, chatVars, limitVars>>

\* handleHealth, lines 52-53 and 93-95, and handleReadiness, lines 122-148: the probe
\* entry is read and deleted; the answer is 200, or 503 when the upstream is not healthy.
ProbeDelete(p) ==
  /\ pc[p] = "probe_delete"
  /\ apiKeys' = KVDelete(apiKeys, ProbeName(req[p].route))
  /\ \E status \in {200, 503} : Respond(p, status)
  /\ UNCHANGED <<rateLimits, clock, nreq, req>>
  /\ UNCHANGED <<hdrs, admitted, streamVars, chatVars, limitVars>>

\* The steps of a request after its arrival.
Proceed(p) ==
  \/ AuthEnter(p)
  \/ ListCall(p)
  \/ ListItem(p)
  \/ ListReturn(p)
  \/ ValidateGet(p)
  \/ ValidatePut(p)
  \/ RateLimitEnter(p)
  \/ \E kind \in Kinds : RateLimitRead(p, kind)
  \/ \E kind \in Kinds : IncrementRead(p, kind)
  \/ \E kind \in Kinds : IncrementWrite(p, kind)
  \/ Handler(p)
  \/ Upstream(p)
  \/ GeneratePutKey(p)
  \/ GeneratePutId(p)
  \/ RevokeGetId(p)
  \/ RevokeGetKey(p)
  \/ RevokePut(p)
  \/ UsageGetId(p)
  \/ UsageGetKey(p)
  \/ ProbePut(p)
  \/ ProbeDelete(p)

\* Requests processed one at a time, any request of the interface, while time passes.
SeqNext ==
  \/ Tick
  \/ \E r \in Requests : Receive(1, r)
  \/ Proceed(1)

SeqSpec == Init /\ [][SeqNext]_vars

\* Requests of one stored credential (chat, and its own revocation) interleaved at
\* every await, within one clock instant.
ConcProceed(p) ==
  \/ AuthEnter(p)
  \/ ValidateGet(p)
  \/ ValidatePut(p)
  \/ RateLimitEnter(p)
  \/ \E kind \in Kinds : RateLimitRead(p, kind)
  \/ \E kind \in Kinds : IncrementRead(p, kind)
  \/ \E kind \in Kinds : IncrementWrite(p, kind)
  \/ Handler(p)
  \/ Upstream(p)
  \/ RevokeGetId(p)
  \/ RevokeGetKey(p)
  \/ RevokePut(p)

Next ==
  \E p \in Procs :
    \/ \E r \in ConcRequests : Receive(p, r)
    \/ ConcProceed(p)

Spec == Init /\ [][Next]_vars


\* Creation requests without a credential, interleaved at every store access,
\* against a store that is empty at first.
BootRequests ==
  {r \in CreateRequests : r.token = NoToken /\ r.body = "valid" /\ r.rateLimit = <<>>}

BootProceed(p) ==
  \/ AuthEnter(p)
  \/ ListCall(p)
  \/ ListItem(p)
  \/ ListReturn(p)
  \/ RateLimitEnter(p)
  \/ Handler(p)
  \/ GeneratePutKey(p)
  \/ GeneratePutId(p)

BootNext ==
  \E p \in Procs :
    \/ \E r \in BootRequests : Receive(p, r)
    \/ BootProceed(p)

BootInit == Init /\ apiKeys = EmptyStore

BootSpec == BootInit /\ [][BootNext]_vars

\* Chat requests of one stored credential, interleaved at every store access, within
\* one minute.
MaxQuotaRequests == 4

QuotaRequests ==
  {r \in ChatRequests :
     r.route = "POST /v1/chat/completions" /\ r.token = PkName(1) /\ r.body = "valid"}

QuotaProceed(p) ==
  \/ AuthEnter(p)
  \/ ValidateGet(p)
  \/ ValidatePut(p)
  \/ RateLimitEnter(p)
  \/ \E kind \in Kinds : RateLimitRead(p, kind)
  \/ \E kind \in Kinds : IncrementRead(p, kind)
  \/ \E kind \in Kinds : IncrementWrite(p, kind)
  \/ Handler(p)
  \/ Upstream(p)

QuotaNext ==
  \E p \in Procs :
    \/ \E r \in QuotaRequests : ReceiveWithin(p, r, MaxQuotaRequests)
    \/ QuotaProceed(p)

QuotaInit == Init /\ apiKeys = FirstStore

QuotaSpec == QuotaInit /\ [][QuotaNext]_vars

\* Chat requests that present the names of the store as tokens, interleaved at every
\* store access with the revocation of the credential and with health probes, which
\* write and delete the 'health-check' entry of the same store.
MaxTokenRequests == 2

ForeignTokens == {IdName(1), Name("health-check", 0)}

TokenRequests ==
  {Request("POST /v1/chat/completions", t, "valid", 0, {}, <<>>) :
     t \in ForeignTokens \cup {PkName(1)}}
  \cup {Request("DELETE /v1/keys/:keyId", PkName(1), "valid", 1, {}, <<>>),
        Request("GET /health", NoToken, "valid", 0, {}, <<>>)}

TokenProceed(p) ==
  \/ ConcProceed(p)
  \/ ProbePut(p)
  \/ ProbeDelete(p)

TokenNext ==
  \E p \in Procs :
    \/ \E r \in TokenRequests : ReceiveWithin(p, r, MaxTokenRequests)
    \/ TokenProceed(p)

TokenInit == Init /\ apiKeys = FirstStore

TokenSpec == TokenInit /\ [][TokenNext]_vars

\* generateAPIKey, lines 221-222: one of its two puts rejects; the store keeps what
\* was written before, and the catch of handleCreateAPIKey answers 500.
GeneratePutThrows(p) ==
  /\ pc[p] \in {"gen_put_key", "gen_put_id"}
  /\ RespondError(p, 500, "key_creation_error")
  /\ UNCHANGED <<apiKeys, rateLimits, clock, nreq, req>>
  /\ UNCHANGED <<hdrs, admitted, streamVars, chatVars, limitVars>>

\* Creations without a credential, one at a time, against a store that is empty at
\* first and whose writes can fail.
CreateNext ==
  \/ \E r \in BootRequests : Receive(1, r)
  \/ BootProceed(1)
  \/ GeneratePutThrows(1)

CreateSpec == BootInit /\ [][CreateNext]_vars

\* Requests one at a time against a store whose writes can fail.
FaultNext == SeqNext \/ ValidatePutThrows(1) \/ ListCallThrows(1)

FaultSpec == Init /\ [][FaultNext]_vars

(***************************************************************************)
(* The stream transducers: the handler's loop over the upstream iterator,  *)
(* the per-format transformer, and the terminating event.                  *)
(***************************************************************************)
\* Fragment texts; "" stands for an absent or empty text.
Fragments == {"", "Hi", " there", "!"}

Event(type, role, text) == [type |-> type, role |-> role, text |-> text]

\* A Format-A transformer that never clears isFirst.
OpenAIStreamTransformerKeepsFirst(first, text) ==
  IF text = "" THEN [events |-> <<>>, isFirst |-> first]
  ELSE [events |-> <<[type |-> "chat.completion.chunk",
                      role |-> IF first THEN "assistant" ELSE "", text |-> text]>>,
        isFirst |-> first]

\* createOpenAIStreamTransformer: the events for one chunk, and isFirst after it.
createOpenAIStreamTransformer(first, text) ==
  IF text = "" THEN [events |-> <<>>, isFirst |-> first]
  ELSE [events |-> <<Event("chat.completion.chunk", IF first THEN "assistant" ELSE "", text)>>,
        isFirst |-> FALSE]

\* createClaudeStreamTransformer: the events for one chunk, and isFirst after it.
createClaudeStreamTransformer(first, text) ==
  IF text = "" THEN [events |-> <<>>, isFirst |-> first]
  ELSE IF first THEN [events |-> <<Event("message_start", "assistant", "")>>, isFirst |-> FALSE]
  ELSE [events |-> <<Event("content_block_delta", "", text)>>, isFirst |-> first]

Transformer(fmt, first, text) ==
  IF fmt = "openai" THEN createOpenAIStreamTransformer(first, text)
  ELSE createClaudeStreamTransformer(first, text)

\* The final event each handler enqueues after the loop.
Terminator(fmt) ==
  IF fmt = "openai" THEN Event("[DONE]", "", "") ELSE Event("message_stop", "", "")

\* No request is received.
GatewayQuiet ==
  /\ apiKeys = EmptyStore
  /\ nreq = 0
  /\ pc = [p \in Procs |-> "idle"]
  /\ req = [p \in Procs |-> NoRequest]
  /\ ctx = [p \in Procs |-> InitCtx]
  /\ resp = [p \in Procs |-> 0]
  /\ code = [p \in Procs |-> ""]
  /\ respKeys = [p \in Procs |-> {}]
  /\ shown = StoredSecrets
  /\ admitted = [n \in 1..MaxKeys |-> 0]
  /\ hdrs = [p \in Procs |-> NoHeaders]

GatewayIdle ==
  /\ GatewayQuiet
  /\ rateLimits = [k \in {} |-> [count |-> 0, expiresAt |-> 0]]
  /\ clock = 0

StreamInit ==
  /\ GatewayIdle
  /\ ChatIdle
  /\ LimitIdle
  /\ upstream \in UNION {[1..n -> Fragments] : n \in 0..MaxFrags}
  /\ format \in {"openai", "claude"}
  /\ pos = 0
  /\ isFirst = TRUE
  /\ out = <<>>
  /\ closed = FALSE
  /\ failAt \in {Undefined} \cup (0..Len(upstream))
  /\ iter = "running"
  /\ cancelAt = Undefined

\* A controller whose enqueue never throws.
EnqueueNeverThrows(cancelled) == FALSE

\* controller.enqueue on a stream that its consumer has cancelled: the stream is no
\* longer readable and the call throws a TypeError.
EnqueueThrows(cancelled) == cancelled

\* The client has disconnected: the stream of the response is cancelled.
Cancelled == cancelAt # Undefined

\* The events of one turn are enqueued, or the enqueue throws into the handler's
\* catch (lines 393-396) and the loop is over.
Enqueue(events) ==
  IF events # <<>> /\ EnqueueThrows(Cancelled)
    THEN out' = out /\ iter' = "stopped"
    ELSE out' = out \o events /\ iter' = iter

\* One turn of the for-await loop: the next chunk is transformed and, if the
\* transformer returned data, enqueued.
StreamChunk ==
  /\ ~closed
  /\ iter = "running"
  /\ pos < Len(upstream)
  /\ pos # failAt
  /\ LET t == Transformer(format, isFirst, upstream[pos + 1])
     IN  /\ Enqueue(t.events)
         /\ isFirst' = t.isFirst
  /\ pos' = pos + 1
  /\ UNCHANGED <<upstream, format, closed, failAt, cancelAt>>
  /\ UNCHANGED <<gatewayVars, chatVars, limitVars>>

\* A processStreamingResponse that lets a rejected read escape to its consumer.
ReadErrorThrown == [thrown |-> TRUE, text |-> ""]

\* processStreamingResponse, lines 238-240: a rejected read of the upstream body is
\* caught, and the generator yields one last chunk with the error text and returns.
processStreamingResponseCatch == [thrown |-> FALSE, text |-> "Error: read failed"]

\* The read of the upstream body rejects.  What the generator yields goes through
\* the loop like any chunk; what it throws is caught by the handler (lines 393-396),
\* which errors the client stream.
StreamReadError ==
  /\ ~closed
  /\ iter = "running"
  /\ pos = failAt
  /\ IF processStreamingResponseCatch.thrown
       THEN /\ iter' = "thrown"
            /\ UNCHANGED <<out, isFirst>>
       ELSE LET t == Transformer(format, isFirst, processStreamingResponseCatch.text)
            IN  /\ isFirst' = t.isFirst
                /\ IF t.events # <<>> /\ EnqueueThrows(Cancelled)
                     THEN out' = out /\ iter' = "stopped"
                     ELSE out' = out \o t.events /\ iter' = "failed"
  /\ UNCHANGED <<upstream, format, pos, closed, failAt, cancelAt>>
  /\ UNCHANGED <<gatewayVars, chatVars, limitVars>>

\* The iterator is exhausted: the final event is enqueued and the stream closed.
StreamEnd ==
  /\ ~closed
  /\ \/ iter = "running" /\ pos = Len(upstream) /\ pos # failAt
     \/ iter = "failed"
  /\ IF EnqueueThrows(Cancelled)
       THEN out' = out /\ iter' = "stopped" /\ closed' = closed
       ELSE out' = Append(out, Terminator(format)) /\ closed' = TRUE /\ iter' = iter
  /\ UNCHANGED <<upstream, format, pos, isFirst, failAt, cancelAt>>
  /\ UNCHANGED <<gatewayVars, chatVars, limitVars>>

\* The client disconnects while the loop awaits the next chunk.  The stream has no
\* cancel callback (lines 377-378), so nothing tells the loop.
ClientDisconnect ==
  /\ ~closed
  /\ iter \in {"running", "failed"}
  /\ ~Cancelled
  /\ cancelAt' = pos
  /\ UNCHANGED <<upstream, format, pos, isFirst, out, closed, failAt, iter>>
  /\ UNCHANGED <<gatewayVars, chatVars, limitVars>>

StreamNext == StreamChunk \/ StreamReadError \/ StreamEnd \/ ClientDisconnect

StreamSpec == StreamInit /\ [][StreamNext]_vars


(***************************************************************************)
(* The chat handlers without streaming: the request is validated, its      *)
(* model validated, the request transformed, puterClient.chat awaited and  *)
(* its result transformed into the response.                               *)
(***************************************************************************)
MaxMessages == 2

\* Rows of modelMap, and entries of validModels; the identifiers tried are an
\* alias, a valid model, one that is neither, and the empty string.
modelMap(model) ==
  IF model = "gpt-4" THEN "gpt-4o"
  ELSE IF model = "claude-3-haiku" THEN "claude-sonnet-4"
  ELSE ""
validModels == {"claude-sonnet-4", "claude-3-5-sonnet", "gpt-4o"}
ModelChoices == {"gpt-4", "gpt-4o", "my-model", ""}

\* validateModel, lines 341-346.
validateModel(model) == IF model \in validModels THEN model ELSE "claude-sonnet-4"

\* a || b of two strings.
OrElse(a, b) == IF a # "" THEN a ELSE b

Message(role, content) == [role |-> role, content |-> content]

ContentChoices == {"Hi", "Be brief"}
OpenAIMessages == {Message(r, c) : r \in {"system", "user", "assistant"}, c \in ContentChoices}
ClaudeMessages == {Message(r, c) : r \in {"user", "assistant"}, c \in ContentChoices}

SeqsUpTo(S, n) == UNION {[1..k -> S] : k \in 0..n}

\* Bodies that pass openAIRequestSchema and claudeRequestSchema, with stream absent
\* and contents plain strings.
ChatRequestChoices ==
  {[format |-> "openai", model |-> m, system |-> "", hasSystem |-> FALSE, messages |-> ms] :
     m \in ModelChoices, ms \in SeqsUpTo(OpenAIMessages, MaxMessages)}
  \cup
  {[format |-> "claude", model |-> m, system |-> sy[1], hasSystem |-> sy[2], messages |-> ms] :
     m \in ModelChoices, sy \in {<<"", FALSE>>, <<"", TRUE>>, <<"Be brief", TRUE>>},
     ms \in SeqsUpTo(ClaudeMessages, MaxMessages)}

\* Lines 72 and 190: one message is passed on as its content, a string.
PromptOf(messages) ==
  IF Len(messages) = 1
    THEN [isString |-> TRUE, text |-> messages[1].content, messages |-> <<>>]
    ELSE [isString |-> FALSE, text |-> "", messages |-> messages]

transformOpenAIToPuter(request) ==
  [prompt |-> PromptOf([i \in 1..Len(request.messages) |->
                          Message(request.messages[i].role,
                                  OrElse(request.messages[i].content, ""))]),
   options |-> [model |-> OrElse(modelMap(request.model), request.model)]]

transformClaudeToPuter(request) ==
  [prompt |-> PromptOf((IF request.hasSystem /\ request.system # ""
                          THEN <<Message("system", request.system)>> ELSE <<>>)
                       \o request.messages),
   options |-> [model |-> OrElse(modelMap(request.model), request.model)]]

\* preparePuterAPIPayload, lines 101-120.
preparePuterAPIPayload(pr, opts) ==
  [prepared |-> TRUE,
   messages |-> IF pr.isString THEN <<Message("user", pr.text)>> ELSE pr.messages,
   model |-> OrElse(opts.model, "claude-3-5-sonnet")]

\* What the upstream call can meet: success; a fetch that rejects; a status that is
\* not 2xx; no stored upstream credentials; a client that was never initialized.
Outcomes == {"ok", "network_error", "non_2xx", "no_credentials", "not_initialized"}

\* createInformativeErrorResponse without streaming: an assistant message whose
\* text is built around the error's message.
createInformativeErrorResponse(error) ==
  [text |-> error, isError |-> TRUE, tool_calls |-> NoToolCalls]

\* callPuterDriversAPI, lines 71-91: the result of the call, or of its catch.  A
\* result that has a message is returned as it came (lines 272-273 and 286-289).
callPuterDriversAPI(met, message) ==
  IF met = "ok"
    THEN [text |-> message.text, isError |-> FALSE, tool_calls |-> message.tool_calls]
    ELSE createInformativeErrorResponse(met)

\* The texts of the upstream messages: one word, three words, a single space and
\* the empty text.
UpstreamTexts == {"Hello", "Hello there friend", " ", ""}

\* The arguments strings of the upstream tool calls: two JSON texts and a
\* truncated one.
ArgumentStrings == {"{}", "{\"city\":\"Oslo\"}", "{\"city\":"}

\* JSON.parse: the object a JSON text denotes, as its set of members, or a
\* SyntaxError.
JSONParse(text) ==
  CASE text = "{}" -> [threw |-> FALSE, value |-> {}]
    [] text = "{\"city\":\"Oslo\"}" -> [threw |-> FALSE, value |-> {<<"city", "Oslo">>}]
    [] OTHER -> [threw |-> TRUE, value |-> {}]

MaxToolCalls == 2

ToolCallChoices ==
  {[id |-> "call_1", name |-> "get_weather", arguments |-> a] : a \in ArgumentStrings}

\* The tool_calls an upstream message of the PuterChatResponse shape can carry.
UpstreamToolCalls ==
  {NoToolCalls} \cup
  {ToolCalls(l) : l \in UNION {[1..n -> ToolCallChoices] : n \in 0..MaxToolCalls}}

\* The upstream messages of the PuterChatResponse shape.
UpstreamMessages ==
  {[text |-> t, tool_calls |-> tc] : t \in UpstreamTexts, tc \in UpstreamToolCalls}

ChatInit ==
  /\ GatewayIdle
  /\ StreamIdle
  /\ LimitIdle
  /\ chatRequest \in ChatRequestChoices
  /\ outcome \in Outcomes
  /\ chatStage = "received"
  /\ validatedModel = ""
  /\ prompt = NoPrompt
  /\ options = NoOptions
  /\ payload = NoPayload
  /\ upstreamMessage \in (IF outcome = "ok" THEN UpstreamMessages ELSE {NoUpstreamMessage})
  /\ puterResponse = NoPuterResponse
  /\ chatResponse = NoChatResponse

\* Lines 355-362 and 447-454.
ChatTransform ==
  /\ chatStage = "received"
  /\ validatedModel' = validateModel(chatRequest.model)
  /\ LET t == IF chatRequest.format = "openai" THEN transformOpenAIToPuter(chatRequest)
              ELSE transformClaudeToPuter(chatRequest)
     IN  prompt' = t.prompt /\ options' = t.options
  /\ chatStage' = "transformed"
  /\ UNCHANGED <<chatRequest, outcome, payload, upstreamMessage, puterResponse, chatResponse>>
  /\ UNCHANGED <<gatewayVars, streamVars, limitVars>>

\* An error response of the handler's catch, lines 411-422.
ErrorResponse(status) ==
  [status |-> status, type |-> "api_error", content |-> "", model |-> "",
   tool_calls |-> NoToolCalls, reason |-> "", usage |-> NoUsage]

\* await puterClient.chat(prompt, options): it throws when the client was not
\* initialized, and the handler's catch answers 500; otherwise it returns what
\* callPuterDriversAPI returns.
ChatCall ==
  /\ chatStage = "transformed"
  /\ IF outcome = "not_initialized"
       THEN /\ chatResponse' = ErrorResponse(500)
            /\ chatStage' = "responded"
            /\ UNCHANGED <<payload, puterResponse>>
       ELSE /\ payload' = preparePuterAPIPayload(prompt, options)
            /\ puterResponse' = callPuterDriversAPI(outcome, upstreamMessage)
            /\ chatStage' = "called"
            /\ UNCHANGED chatResponse
  /\ UNCHANGED <<chatRequest, validatedModel, prompt, options, outcome, upstreamMessage>>
  /\ UNCHANGED <<gatewayVars, streamVars, limitVars>>

\* The characters of the texts of the model.
Chars(text) ==
  CASE text = "" -> <<>>
    [] text = " " -> <<" ">>
    [] text = "Hello" -> <<"H", "e", "l", "l", "o">>
    [] text = "Hello there friend" ->
         <<"H", "e", "l", "l", "o", " ", "t", "h", "e", "r", "e", " ",
           "f", "r", "i", "e", "n", "d">>
    [] OTHER -> <<"e", "r", "r", "o", "r">>

\* text.split(/\s+/).length: one more than the number of maximal runs of
\* whitespace in the text.
SplitLength(chars) ==
  1 + Cardinality({i \in 1..Len(chars) :
                     chars[i] = " " /\ (i = 1 \/ chars[i - 1] # " ")})

\* estimateTokenCount, lines 353-371: 0 for the empty text, else
\* Math.max(1, Math.ceil(wordCount * 0.75)).
estimateTokenCount(text) ==
  IF text = "" THEN 0
  ELSE Max(1, (3 * SplitLength(Chars(text)) + 3) \div 4)

\* Whether a list of tool calls counts as tool calls: any list does, an empty one
\* too, since the code tests the list itself (lines 110 and 233).
HasToolCalls(toolCalls) == toolCalls.present

\* transformPuterToOpenAI, lines 80-123: the tool calls are copied with their
\* arguments strings.
transformPuterToOpenAI(response, model) ==
  [threw |-> FALSE,
   response |-> [status |-> 200, type |-> "chat", content |-> response.text, model |-> model,
                 tool_calls |-> response.tool_calls,
                 reason |-> IF HasToolCalls(response.tool_calls) THEN "tool_calls" ELSE "stop",
                 \* The handlers pass no originalPrompt (lines 409 and 501 of the
                 \* handlers); the statements after the return (lines 119-122) never run.
                 usage |-> [prompt_tokens |-> 0,
                            completion_tokens |-> estimateTokenCount(response.text),
                            total_tokens |-> 0]]]

\* A tool_use part of a Format B response: the arguments string parsed.
ToolUse(tc) == [id |-> tc.id, name |-> tc.name, input |-> JSONParse(tc.arguments).value]

\* transformPuterToClaude, lines 200-239: each tool call becomes a tool_use part
\* whose input is JSON.parse of the arguments string, which throws on a text that
\* is not JSON.
transformPuterToClaude(response, model) ==
  LET list == response.tool_calls.list
  IN  IF \E i \in 1..Len(list) : JSONParse(list[i].arguments).threw
        THEN [threw |-> TRUE, response |-> NoChatResponse]
        ELSE [threw |-> FALSE,
              response |->
                [status |-> 200, type |-> "chat", content |-> response.text, model |-> model,
                 tool_calls |-> [present |-> response.tool_calls.present,
                                 list |-> [i \in 1..Len(list) |-> ToolUse(list[i])]],
                 reason |-> IF HasToolCalls(response.tool_calls) THEN "tool_use"
                            ELSE "end_turn",
                 usage |-> [input_tokens |-> 0,
                            output_tokens |-> estimateTokenCount(response.text)]]]

\* transformPuterToOpenAI / transformPuterToClaude and c.json(response); what the
\* transformer throws is answered by the handler's catch with 500.
ChatRespond ==
  /\ chatStage = "called"
  /\ LET t == IF chatRequest.format = "openai"
                THEN transformPuterToOpenAI(puterResponse, validatedModel)
                ELSE transformPuterToClaude(puterResponse, validatedModel)
     IN  chatResponse' = IF t.threw THEN ErrorResponse(500) ELSE t.response
  /\ chatStage' = "responded"
  /\ UNCHANGED <<chatRequest, validatedModel, prompt, options, outcome, payload,
                 upstreamMessage, puterResponse>>
  /\ UNCHANGED <<gatewayVars, streamVars, limitVars>>

ChatNext == ChatTransform \/ ChatCall \/ ChatRespond

ChatSpec == ChatInit /\ [][ChatNext]_vars

(***************************************************************************)
(* checkRateLimit and getRateLimitStatus as functions of the limits, of    *)
(* the time and of the counters stored for one credential.                 *)
(***************************************************************************)
MaxCount == 3

\* The limits tried: the smallest, and the largest stored count.
LimitArgs == {RateLimitOf(m, h, d) : m \in {1, MaxCount}, h \in {1, MaxCount}, d \in {1, MaxCount}}

\* The times tried: the first and the last millisecond of a minute, of an hour and
\* of a UTC day, and a time inside the second day.
Instants ==
  {0, MinuteMs - 1, MinuteMs, HourMs - 1, HourMs, DayMs - 1, DayMs, DayMs + HourMs + MinuteMs + 1}

\* The counters of credential 1 for the buckets of a time: for each window an entry
\* with a count, or none.
CounterStores(now) ==
  {[name \in {CounterName(1, k, now) : k \in present} |->
      [count |-> c[name.kind], expiresAt |-> now + Ttl(name.kind) * 1000]] :
     present \in SUBSET Kinds, c \in [Kinds -> 0..MaxCount]}

LimitInit ==
  /\ GatewayQuiet
  /\ StreamIdle
  /\ ChatIdle
  /\ clock \in Instants
  /\ rateLimits \in CounterStores(clock)
  /\ quotaLimits \in LimitArgs
  /\ quotaDecision = NoDecision
  /\ quotaStatus = NoStatus

\* checkRateLimit(env, keyId, limits, now) returns.
CheckRateLimitCall ==
  /\ ~quotaDecision.called
  /\ LET counts == CountsRead(1, clock)
     IN  quotaDecision' = [called |-> TRUE,
                           allowed |-> checkRateLimit(quotaLimits, counts).allowed,
                           used |-> counts,
                           remaining |-> checkRateLimit(quotaLimits, counts).remaining,
                           reset |-> ResetTimes(clock)]
  /\ UNCHANGED <<gatewayVars, streamVars, chatVars, quotaLimits, quotaStatus>>

\* getRateLimitStatus(env, keyId, limits) returns.
StatusCall ==
  /\ ~quotaStatus.called
  /\ quotaStatus' = getRateLimitStatus(quotaLimits, CountsRead(1, clock), clock)
  /\ UNCHANGED <<gatewayVars, streamVars, chatVars, quotaLimits, quotaDecision>>

LimitNext == CheckRateLimitCall \/ StatusCall

LimitSpec == LimitInit /\ [][LimitNext]_vars

(***************************************************************************)
(* Properties.  In SeqSpec the one process is process 1, and a step that   *)
(* takes pc[1] to "done" is the step on which its request is answered.     *)
(***************************************************************************)
Answered(p) == pc[p] # "done" /\ pc'[p] = "done"

\* C1: bootstrap is one-shot.  Of the creation requests sent without a credential,
\* one at a time, only one is answered 201: one answered 201 leaves exactly its own
\* credential in the store, and one answered while a credential is stored is
\* answered 401.
C1_BootstrapOneShot ==
  [][(Answered(1) /\ req[1].route = "POST /v1/keys" /\ req[1].token = NoToken) =>
       /\ resp'[1] = 201 => Cardinality({n \in DOMAIN apiKeys' : n.pfx = "pk-"}) = 1
       /\ (resp'[1] # 201 /\ StoredSecrets # {}) => resp'[1] = 401]_vars

\* C2: revocation is terminal under every interleaving: a stored credential that is
\* inactive is inactive in every later state.
C2_RevocationTerminal ==
  [][\A n \in 1..MaxKeys :
       (KVHas(apiKeys, PkName(n)) /\ ~apiKeys[PkName(n)].apiKey.isActive) =>
         (KVHas(apiKeys', PkName(n)) /\ ~apiKeys'[PkName(n)].apiKey.isActive)]_vars

\* C3: with requests one at a time, a request that presents the secret of a revoked
\* credential is answered 401 on every endpoint that is not public.
C3_RevokedSecretRejected ==
  [][(/\ Answered(1)
      /\ ~IsPublicPath(req[1].route)
      /\ KVHas(apiKeys, req[1].token)
      /\ ~apiKeys[req[1].token].apiKey.isActive) => resp'[1] = 401]_vars

\* The stages of revokeAPIKey.
RevokeStages == {"revoke_get_id", "revoke_get_key", "revoke_put"}

StoredCount(p, kind) == getRateLimitCount(CounterName(ctx[p].apiKey.id, kind, ctx[p].now))

C6_CountMonotone ==
  [][\A name \in DOMAIN rateLimits :
       name \in DOMAIN rateLimits' /\ rateLimits'[name].count >= rateLimits[name].count]_vars

\* C7: a request answered 400 for its malformed body has incremented no quota counter
\* of the calling credential: each holds the count rate limiting read for the request.
C7_MalformedNoQuota ==
  [][(Answered(1) /\ resp'[1] = 400 /\ req[1].body = "malformed" /\ ctx[1].apiKey # NoAPIKey) =>
       \A k \in Kinds : StoredCount(1, k) = ctx[1].counts[k]]_vars

\* The stages of a request before incrementRateLimit.
BeforeIncrement ==
  {"idle", "done", "auth", "list", "list_get", "validate_get", "validate_put", "ratelimit",
   "rl_check"}

\* C8: a request answered 401, 403 or 429 leaves every quota counter unchanged: it is
\* answered before incrementRateLimit, and no step of a request before
\* incrementRateLimit writes a counter.
C8_RejectedNoQuota ==
  /\ [][\A p \in Procs :
          (Answered(p) /\ resp'[p] \in {401, 403, 429}) =>
            (pc[p] \in BeforeIncrement /\ rateLimits' = rateLimits)]_vars
  /\ [][\A p \in Procs :
          (pc[p] \in BeforeIncrement /\ (pc'[p] # pc[p] \/ ctx'[p] # ctx[p])) =>
            rateLimits' = rateLimits]_vars

\* A request has been answered 403 while the store holds counters.
C8_Witness ==
  /\ pc[1] = "done" /\ resp[1] = 403
  /\ DOMAIN rateLimits # {}


\* The upstream stream is n >= 1 fragments, each of them non-empty.
AllNonEmpty ==
  /\ failAt = Undefined
  /\ Len(upstream) >= 1
  /\ \A i \in 1..Len(upstream) : upstream[i] # ""

\* C9: for n >= 1 non-empty fragments f1..fn the Format-B stream, once closed, is one
\* message_start, then n content_block_delta events carrying f1..fn in order, the
\* first fragment included, then one message_stop.
C9_FormatBStream ==
  (closed /\ format = "claude" /\ AllNonEmpty) =>
    out = <<Event("message_start", "assistant", "")>>
          \o [i \in 1..Len(upstream) |-> Event("content_block_delta", "", upstream[i])]
          \o <<Event("message_stop", "", "")>>

\* C10: for n >= 1 non-empty fragments f1..fn the Format-A stream, once closed, is n
\* chunk events carrying f1..fn in order, the first and only the first with the role
\* 'assistant', then one [DONE] line.
C10_FormatAStream ==
  (closed /\ format = "openai" /\ AllNonEmpty) =>
    out = [i \in 1..Len(upstream) |->
             Event("chat.completion.chunk", IF i = 1 THEN "assistant" ELSE "", upstream[i])]
          \o <<Event("[DONE]", "", "")>>

\* A Format-A stream of MaxFrags non-empty fragments has been closed.
C10_Witness ==
  /\ closed /\ format = "openai" /\ AllNonEmpty
  /\ Len(upstream) = MaxFrags
  /\ Len(out) = MaxFrags + 1


\* C11: when the upstream fragment sequence fails part-way through a streaming
\* response, after zero or more fragments, the client stream is not errored and,
\* once the handler is through, its last event is the format's terminating event.
C11_TerminatorAfterFailure ==
  /\ iter # "thrown"
  /\ (iter = "failed" /\ closed) => (Len(out) >= 1 /\ out[Len(out)] = Terminator(format))
  /\ (iter = "failed" /\ ~closed) => ENABLED StreamEnd

\* The upstream failed after two fragments were read, and the stream has been closed.
C11_Witness ==
  /\ iter = "failed" /\ closed
  /\ failAt = 2 /\ pos = 2


\* C12: a failure of the lastUsed write never fails the request: a request whose
\* secret validateAPIKey has read as that of a stored active credential, and which
\* is answered at the write of lastUsed, is not answered 401.
C12_LastUsedBestEffort ==
  [][(pc[1] = "validate_put" /\ Answered(1)) => resp'[1] # 401]_vars


\* The message list of the request as the upstream is meant to receive it.
RequestMessages ==
  (IF chatRequest.format = "claude" /\ chatRequest.hasSystem
     THEN <<Message("system", chatRequest.system)>> ELSE <<>>)
  \o chatRequest.messages

\* C13: the message list submitted upstream has the roles and contents of the
\* request's messages, in their order and number, for Format B preceded by one
\* system message when the request has a system field.
C13_MessageRoundTrip ==
  payload.prepared => payload.messages = RequestMessages

\* C14: a chat request whose model is neither an alias nor a valid model is not
\* rejected, and the model submitted upstream is the default model.
C14_UnknownModelDefault ==
  (chatRequest.model # "" /\ modelMap(chatRequest.model) = ""
     /\ chatRequest.model \notin validModels) =>
    /\ chatStage = "responded" => chatResponse.status \notin {400, 404}
    /\ payload.prepared => payload.model = validateModel(chatRequest.model)

\* C15: when the upstream call fails, a chat request without streaming is answered
\* with a 5xx status and the error envelope, never with a 200 chat response.
C15_UpstreamFailure5xx ==
  (chatStage = "responded" /\ outcome # "ok") =>
    (chatResponse.status >= 500 /\ chatResponse.type = "api_error")


\* The nine quota headers.
AllQuotaHeaders == {QuotaHeader(g, k) : g \in {"Limit", "Remaining", "Reset"}, k \in Kinds}

\* C16: every response to an admitted request, one that was authenticated and found
\* within its quota, carries a limit, a remaining and a reset header for each of the
\* three windows.
C16_QuotaHeaders ==
  [][(/\ Answered(1)
      /\ ctx[1].apiKey # NoAPIKey
      /\ \A k \in Kinds : ctx[1].inc[k] = "done") =>
       AllQuotaHeaders \subseteq DOMAIN hdrs'[1]]_vars


(***************************************************************************)
(* Authentication order.                                                   *)
(***************************************************************************)
\* The request of process 1 is inside authMiddleware.
InAuth ==
  \/ pc[1] \in {"auth", "validate_get", "validate_put"}
  \/ pc[1] \in {"list", "list_get"} /\ ctx[1].ret = "boot"

\* The token is the secret of a stored credential that is active.
IsActiveSecret(token) ==
  /\ token.pfx = "pk-"
  /\ KVHas(apiKeys, token)
  /\ apiKeys[token].apiKey.isActive

\* What the authentication order prescribes for the request that leaves authMiddleware.
AuthOutcome ==
  IF req[1].token = NoToken
    THEN resp'[1] = 401 /\ code'[1] = "missing_api_key"
  ELSE IF ~IsActiveSecret(req[1].token)
    THEN resp'[1] = 401 /\ code'[1] = "invalid_api_key"
  ELSE IF ~HasPermission(apiKeys[req[1].token].apiKey, req[1].route)
    THEN resp'[1] = 403 /\ code'[1] = "insufficient_permissions"
  ELSE /\ pc'[1] = "ratelimit"
       /\ ctx'[1].apiKey # NoAPIKey
       /\ Touched(ctx'[1].apiKey, 0) = Touched(apiKeys[req[1].token].apiKey, 0)

\* C17: a request to a non-public path leaves the authentication as the order says:
\* no token, 401 missing_api_key; a token that is not the secret of a stored active
\* credential, 401 invalid_api_key; a valid credential without the scope of the path
\* ('chat' for the chat paths, 'admin' for every /v1/keys path), 403; otherwise the
\* credential is attached and the request is passed on.  The one exception is the
\* creation of the first credential, while the store holds none.
C17_AuthOrder ==
  [][(/\ InAuth
      /\ pc'[1] \in {"done", "ratelimit"}
      /\ ~IsPublicPath(req[1].route)
      /\ ~(req[1].route = "POST /v1/keys" /\ StoredSecrets = {})) => AuthOutcome]_vars


(***************************************************************************)
(* Secrets in responses.                                                   *)
(***************************************************************************)
\* The routes that return credential data without creating a credential.
ReadingKeyRoutes == {"GET /v1/keys", "GET /v1/keys/current", "GET /v1/keys/:keyId/usage"}

\* C18: a credential's secret appears in a response only once, in the 201 response
\* of its creation: a response that carries a secret is the 201 of POST /v1/keys, the
\* secret is that of the credential just created and no earlier response carried it;
\* the responses of the key listing, the current-key information and the key usage
\* carry no secret.
C18_SecretOnlyAtCreation ==
  [][Answered(1) =>
       /\ respKeys'[1] \cap shown = {}
       /\ respKeys'[1] # {} =>
            /\ resp'[1] = 201
            /\ req[1].route = "POST /v1/keys"
            /\ respKeys'[1] = {ctx[1].keyData.key}
       /\ req[1].route \in ReadingKeyRoutes => respKeys'[1] = {}]_vars

\* The listing of a store that holds credentials was answered 200, and the secrets
\* shown so far are those of the creations.
C18_Witness ==
  /\ pc[1] = "done"
  /\ resp[1] = 200
  /\ req[1].route = "GET /v1/keys"
  /\ respKeys[1] = {}
  /\ StoredSecrets # {}
  /\ shown = StoredSecrets


(***************************************************************************)
(* Paths served without a credential.                                      *)
(***************************************************************************)
\* The model listing, the health probes and the metrics.
StaticRoutes ==
  {"GET /v1/models", "GET /health", "GET /health/ready", "GET /health/live", "GET /metrics"}

\* The credential records of the store: the credentials and their id index entries.
CredentialRecords ==
  [name \in {x \in DOMAIN apiKeys : x.pfx \in {"pk-", "id:"}} |-> apiKeys[name]]

C20_LimitsDefined ==
  \A n \in StoredSecrets :
    \A kind \in Kinds : LimitOf(StoredKey(n).rateLimit, kind) >= 1

(***************************************************************************)
(* Route outcomes without a credential.                                    *)
(***************************************************************************)
\* C21: with no credential presented, a POST to the deprecated /v1/completions is
\* answered 410 and a request to an unknown route under /v1/ is answered 404: the
\* outcome of the route is not replaced by an authentication error.
C21_RouteOutcomeWithoutCredential ==
  [][(Answered(1) /\ req[1].token = NoToken) =>
       /\ req[1].route = "POST /v1/completions" => resp'[1] = 410
       /\ req[1].route = "GET /v1/unknown" => resp'[1] = 404]_vars

(***************************************************************************)
(* The bootstrap window.                                                   *)
(***************************************************************************)
\* C22: the bootstrap race is bounded by the window: of the POST /v1/keys requests
\* without a credential that run concurrently against a store that was empty, every
\* one whose existence check starts after some creation has completed is answered 401.
C22_BootstrapWindow ==
  [][\A p \in Procs :
       (/\ Answered(p)
        /\ req[p].route = "POST /v1/keys"
        /\ req[p].token = NoToken
        /\ ctx[p].boot = "late") => resp'[p] = 401]_vars

\* Credentials are stored and every one of them is revoked.
AllRevoked ==
  /\ StoredSecrets # {}
  /\ \A n \in StoredSecrets : ~StoredKey(n).isActive

\* C23: the bootstrap latch only moves forward: once a first credential has been
\* created, revoking credentials, even all of them, never makes a POST /v1/keys
\* without a credential succeed again: with every stored credential revoked, such a
\* request leaves the authentication answered 401, it is not passed on to the creation.
C23_LatchForward ==
  [][(/\ InAuth
      /\ pc'[1] \in {"done", "ratelimit"}
      /\ req[1].route = "POST /v1/keys"
      /\ req[1].token = NoToken
      /\ AllRevoked) => resp'[1] = 401]_vars

\* C24: when the listing of the bootstrap check throws, a POST /v1/keys without a
\* credential is passed on to the creation without authentication, whether or not
\* credentials are stored: it goes on to the rate limiter with no credential attached
\* and is answered by handleCreateAPIKey, 201 or, for a malformed body, 400.
C24_ListFailureOpens ==
  [][/\ (/\ pc[1] = "list"
         /\ ctx[1].ret = "boot"
         /\ req[1].token = NoToken
         /\ pc'[1] \notin {"list", "list_get"}) =>
          (pc'[1] = "ratelimit" /\ ctx'[1].apiKey = NoAPIKey)
     /\ (Answered(1) /\ ctx[1].boot = "threw" /\ req[1].token = NoToken) =>
          resp'[1] = (IF req[1].body = "malformed" THEN 400 ELSE 201)]_vars

\* A creation without a credential, whose bootstrap listing threw while a credential
\* was stored, has stored its credential and is about to be answered.
C24_Witness ==
  /\ pc[1] = "gen_put_id"
  /\ ctx[1].boot = "threw"
  /\ req[1].token = NoToken
  /\ Cardinality(StoredSecrets) = 2

(***************************************************************************)
(* Overshoot under concurrency.                                            *)
(***************************************************************************)
\* C25: the overshoot is bounded by the concurrency: with at most NumProcs requests
\* of one credential in flight at the same time, the number of its requests admitted
\* within one minute bucket never exceeds requestsPerMinute + NumProcs - 1.
C25_OvershootBounded ==
  \A n \in StoredSecrets :
    LimitOf(StoredKey(n).rateLimit, "minute") # Undefined =>
      admitted[StoredKey(n).id] <= LimitOf(StoredKey(n).rateLimit, "minute") + NumProcs - 1

(***************************************************************************)
(* The quota arithmetic.                                                   *)
(***************************************************************************)
\* The count stored for the bucket of the time of the call, 0 when there is no entry.
BucketCount(kind) ==
  IF KVHas(rateLimits, CounterName(1, kind, clock))
    THEN rateLimits[CounterName(1, kind, clock)].count
    ELSE 0

\* C26: in every decision returned by checkRateLimit and in every status returned
\* by getRateLimitStatus, for each window remaining = max(0, limit - count), where
\* count is the value read for the current bucket of the window in the same call, 0
\* when the bucket has no entry.
C26_RemainingFormula ==
  /\ quotaDecision.called =>
       \A k \in Kinds :
         /\ quotaDecision.used[k] = BucketCount(k)
         /\ quotaDecision.remaining[k] =
              (IF LimitOf(quotaLimits, k) >= BucketCount(k)
                 THEN LimitOf(quotaLimits, k) - BucketCount(k)
                 ELSE 0)
  /\ quotaStatus.called =>
       \A k \in Kinds :
         /\ quotaStatus.used[k] = BucketCount(k)
         /\ quotaStatus.remaining[k] =
              (IF LimitOf(quotaLimits, k) >= BucketCount(k)
                 THEN LimitOf(quotaLimits, k) - BucketCount(k)
                 ELSE 0)

\* Both functions have returned for a credential that has a window whose count is
\* above its limit, a window with no entry and a window with allowance left.
C26_Witness ==
  /\ quotaDecision.called
  /\ quotaStatus.called
  /\ \E k \in Kinds : BucketCount(k) > LimitOf(quotaLimits, k) /\ quotaStatus.remaining[k] = 0
  /\ \E k \in Kinds : ~KVHas(rateLimits, CounterName(1, k, clock))
  /\ \E k \in Kinds : quotaDecision.remaining[k] > 0

\* The length of a bucket of each window, in milliseconds.
BucketMs(kind) == IF kind = "minute" THEN MinuteMs ELSE IF kind = "hour" THEN HourMs ELSE DayMs

\* The reset times of a result roll the buckets of the time of the call over.
RollsOver(reset) ==
  \A k \in Kinds :
    /\ reset[k] = (Bucket(k, clock) + 1) * BucketMs(k)
    /\ reset[k] > clock
    /\ Bucket(k, reset[k]) # Bucket(k, reset[k] - 1)

\* C27: for each window the reported reset time is the instant the current bucket
\* rolls over, the first millisecond of the next minute, of the next hour and of the
\* next UTC day: reset > now, and the bucket of the time reset differs from the bucket
\* of reset - 1.
C27_ResetRollsOver ==
  /\ quotaDecision.called => RollsOver(quotaDecision.reset)
  /\ quotaStatus.called => RollsOver(quotaStatus.reset)

(***************************************************************************)
(* Client disconnect.                                                      *)
(***************************************************************************)
\* The chunks of the upstream iterator all carry text, as those that
\* processStreamingResponse yields do.
AllCarryText == \A i \in 1..Len(upstream) : upstream[i] # ""

\* C28: if the client disconnects during a streaming response the loop over the
\* upstream fragments stops: after the cancellation at most one fragment, the one
\* in progress, is pulled, and with it the loop is over.
C28_DisconnectStopsLoop ==
  (Cancelled /\ AllCarryText) =>
    /\ pos <= cancelAt + 1
    /\ pos = cancelAt + 1 => iter = "stopped"
    /\ iter = "stopped" => ~ENABLED StreamChunk

\* The client disconnected after one of three fragments; the second was pulled, the
\* loop stopped and the third was never pulled.
C28_Witness ==
  /\ AllCarryText
  /\ Len(upstream) = 3
  /\ failAt = Undefined
  /\ cancelAt = 1
  /\ pos = 2
  /\ iter = "stopped"

(***************************************************************************)
(* Response translation.                                                   *)
(***************************************************************************)
\* The upstream call succeeded and its response was handed to the translation.
Translated == chatStage = "responded" /\ outcome = "ok"

\* C29: the translation of an upstream response of the validated shape returns a
\* response and does not throw, in both formats, also when a tool call carries an
\* arguments string that is not valid JSON.
C29_TranslationTotal ==
  Translated => (chatResponse.status = 200 /\ chatResponse.type = "chat")

\* The number of tool calls in the upstream response.
ToolCallCount == Len(puterResponse.tool_calls.list)

\* C30: the terminal reason of a translated response is the tool-use reason of its
\* format exactly if the upstream response contains at least one tool call; with
\* none, an empty tool_calls list included, it is 'stop' / 'end_turn'.
C30_TerminalReason ==
  (Translated /\ chatResponse.status = 200) =>
    chatResponse.reason =
      IF chatRequest.format = "openai"
        THEN (IF ToolCallCount >= 1 THEN "tool_calls" ELSE "stop")
        ELSE (IF ToolCallCount >= 1 THEN "tool_use" ELSE "end_turn")

(***************************************************************************)
(* Usage of a Format A response.                                           *)
(***************************************************************************)
\* C31: in every Format A response without streaming the total of the usage is the
\* sum of its prompt and completion parts, and the completion part is the estimate
\* of the response's text.
C31_UsageTotal ==
  (Translated /\ chatRequest.format = "openai" /\ chatResponse.status = 200) =>
    /\ chatResponse.usage.completion_tokens = estimateTokenCount(chatResponse.content)
    /\ chatResponse.usage.total_tokens =
         chatResponse.usage.prompt_tokens + chatResponse.usage.completion_tokens

(***************************************************************************)
(* Usage of a credential.                                                  *)
(***************************************************************************)
UsageRoute == "GET /v1/keys/:keyId/usage"

\* C32: the usage of credential K reports K's own limits, and remaining values
\* computed from K's limits and K's counters, whoever the caller is.
C32_UsageOfItsOwnLimits ==
  [][(Answered(1) /\ req[1].route = UsageRoute /\ resp'[1] = 200) =>
       LET K == StoredKey(apiKeys[IdName(req[1].keyId)].text)
       IN  /\ quotaStatus'.limits = K.rateLimit
           /\ quotaStatus'.remaining =
                [k \in Kinds |-> Remaining(LimitOf(K.rateLimit, k),
                                           CountsRead(K.id, clock)[k])]]_vars

(***************************************************************************)
(* A credential reading its own data.                                      *)
(***************************************************************************)
\* The request presents the secret of a stored active credential without the
\* admin scope.
PlainCaller ==
  /\ IsActiveSecret(req[1].token)
  /\ "admin" \notin apiKeys[req[1].token].apiKey.permissions

\* The request asks for the data of the credential it presents.
OwnData ==
  \/ req[1].route = "GET /v1/keys/current"
  \/ req[1].route = UsageRoute /\ req[1].keyId = apiKeys[req[1].token].apiKey.id

\* C33: a valid credential without the admin scope is let through to its own data,
\* GET /v1/keys/current and the usage of its own id, while the usage of any other id
\* is refused with 403.
C33_OwnDataReadable ==
  [][(InAuth /\ pc'[1] \in {"done", "ratelimit"} /\ PlainCaller) =>
       /\ OwnData => pc'[1] = "ratelimit"
       /\ (req[1].route = UsageRoute /\ ~OwnData) => resp'[1] = 403]_vars

(***************************************************************************)
(* The listing of the credentials.                                         *)
(***************************************************************************)
Min(a, b) == IF a <= b THEN a ELSE b

\* listAPIKeys has gone through the names listed and is about to return.
ListDone == pc[1] = "list_get" /\ ctx[1].items = <<>>

\* C34: listAPIKeys(env, limit) returns min(limit, number of stored credentials)
\* credentials while the store holds, next to each credential, its 'id:<id>' index
\* entry; in particular a store with a credential gives a list that is not empty.
C34_ListLength ==
  ListDone =>
    /\ Len(ctx[1].found) = Min(ctx[1].limit, Cardinality(StoredSecrets))
    /\ StoredSecrets # {} => ctx[1].found # <<>>

(***************************************************************************)
(* What authenticates.                                                     *)
(***************************************************************************)
\* On this step authMiddleware attaches a credential to the request of p.
Attaches(p) == ctx[p].apiKey = NoAPIKey /\ ctx'[p].apiKey # NoAPIKey

\* C35: a credential is attached to a request only if its token is exactly the
\* secret of a stored credential that was active when validateAPIKey looked it up; a
\* token that names another entry of the store, an 'id:<id>' index entry or the
\* health-check entry, is answered 401 and never authenticates.
C35_OnlyActiveSecrets ==
  [][\A p \in Procs :
       /\ Attaches(p) =>
            /\ req[p].token.pfx = "pk-"
            /\ KVHas(apiKeys, req[p].token)
            /\ apiKeys[req[p].token].tag = "json"
            /\ ctx'[p].apiKey.key = req[p].token.n
            /\ ctx'[p].apiKey.isActive
            /\ ctx'[p].apiKey = ctx[p].keyData
       /\ req[p].token \in ForeignTokens =>
            /\ ~Attaches(p)
            /\ Answered(p) => (resp'[p] = 401 /\ code'[p] = "invalid_api_key")]_vars

\* The token 'health-check' was answered 401 while the entry of that name was in the
\* store.
C35_Witness ==
  /\ pc[1] = "done" /\ req[1].token = Name("health-check", 0) /\ resp[1] = 401
  /\ KVHas(apiKeys, Name("health-check", 0))

(***************************************************************************)
(* A creation that fails.                                                  *)
(***************************************************************************)
\* C36: a creation whose generateAPIKey fails on one of its two writes is answered
\* 500 and leaves no record of the new secret: the store is as it was when the
\* creation began.
C36_CreationAllOrNothing ==
  [][(pc[1] \in {"gen_put_key", "gen_put_id"} /\ Answered(1) /\ resp'[1] = 500) =>
       /\ code'[1] = "key_creation_error"
       /\ ~KVHas(apiKeys', PkName(ctx[1].keyData.key))
       /\ ~KVHas(apiKeys', IdName(ctx[1].keyData.id))]_vars

(***************************************************************************)
(* Counters of different credentials.                                      *)
(***************************************************************************)
\* The step is one of the request of p, authenticated as a credential.
StepOf(p) ==
  /\ pc[p] \notin {"idle", "done"}
  /\ ctx[p].apiKey # NoAPIKey
  /\ pc'[p] # pc[p] \/ ctx'[p] # ctx[p]

\* The counter names of the credentials other than the one with this id.
OthersCounters(store, id) == {n \in DOMAIN store : n.id # id}

\* C37: the quota counters are isolated per credential.  The rate limiter of a
\* request authenticated as credential A reads the counters named by A's id, and no
\* step of the request adds, changes or removes a counter of another credential.
C37_CountersIsolated ==
  [][\A p \in Procs : StepOf(p) =>
       LET A == ctx[p].apiKey.id
       IN  /\ OthersCounters(rateLimits', A) = OthersCounters(rateLimits, A)
           /\ \A n \in OthersCounters(rateLimits, A) : rateLimits'[n] = rateLimits[n]
           /\ \A n \in DOMAIN rateLimits' :
                (n \notin DOMAIN rateLimits \/ rateLimits'[n] # rateLimits[n]) => n.id = A
           /\ \A k \in Kinds :
                (pc[p] = "rl_check" /\ ctx[p].counts[k] = Undefined
                   /\ pc'[p] # "done" /\ ctx'[p].counts[k] # Undefined) =>
                  LET n == [id |-> A, kind |-> k, bucket |-> Bucket(k, ctx[p].now)]
                  IN  ctx'[p].counts[k] = IF n \in DOMAIN rateLimits THEN rateLimits[n].count ELSE 0]_vars

\* A request of credential 2 was admitted and counted while credential 1 has a
\* counter of its own, which still holds one request.
C37_Witness ==
  /\ pc[1] = "done" /\ req[1].token = PkName(2) /\ resp[1] = 200
  /\ \E n \in DOMAIN rateLimits : n.id = 2 /\ rateLimits[n].count = 1
  /\ \E n \in DOMAIN rateLimits : n.id = 1 /\ n.kind = "minute" /\ rateLimits[n].count = 1

(***************************************************************************)
(* The model of a response.                                                *)
(***************************************************************************)
\* C38: the model reported in the response of a chat request is the model that was
\* submitted in the upstream call, for alias names and for unknown names alike.
C38_ModelReportedIsSubmitted ==
  (chatStage = "responded" /\ chatResponse.status = 200 /\ payload.prepared) =>
    chatResponse.model = payload.model

(***************************************************************************)
(* The shape of a Format B stream.                                         *)
(***************************************************************************)
\* The positions of the events of one type in the stream.
EventsOfType(type) == {i \in 1..Len(out) : out[i].type = type}

\* The fragments of the upstream sequence that carry text.
TextFragments == {i \in 1..Len(upstream) : upstream[i] # ""}

\* C39: a Format B stream, once closed, is well-formed whatever the upstream
\* sequence was, an empty one or one of empty-text fragments included: one
\* message_stop, as the last event, one message_start before it, and no event for
\* a fragment without text.
C39_FormatBWellFormed ==
  (closed /\ format = "claude" /\ failAt = Undefined) =>
    /\ EventsOfType("message_stop") = {Len(out)}
    /\ Cardinality(EventsOfType("message_start")) = 1
    /\ Len(out) = Cardinality(TextFragments) + 1

(***************************************************************************)
(* The immutable fields of a credential.                                   *)
(***************************************************************************)
\* The fields of a credential that no write-back is to change.
Immutable(apiKey) ==
  [id |-> apiKey.id, key |-> apiKey.key, name |-> apiKey.name,
   permissions |-> apiKey.permissions, rateLimit |-> apiKey.rateLimit,
   createdAt |-> apiKey.createdAt]

\* C40: the write-backs of validateAPIKey and revokeAPIKey preserve the immutable
\* fields.  A stored credential stays stored under its secret with the same id,
\* secret, name, permissions, limits and createdAt on every step, and every
\* 'id:<id>' index entry points to the record whose id is <id>.
C40_ImmutableFields ==
  /\ [][\A n \in 1..MaxKeys :
          KVHas(apiKeys, PkName(n)) =>
            /\ KVHas(apiKeys', PkName(n))
            /\ apiKeys'[PkName(n)].tag = "json"
            /\ Immutable(apiKeys'[PkName(n)].apiKey) = Immutable(apiKeys[PkName(n)].apiKey)
            /\ apiKeys'[PkName(n)].apiKey.key = n]_vars
  /\ [][\A n \in 1..MaxKeys :
          KVHas(apiKeys', IdName(n)) =>
            /\ KVHas(apiKeys', PkName(apiKeys'[IdName(n)].text))
            /\ apiKeys'[PkName(apiKeys'[IdName(n)].text)].apiKey.id = n]_vars

\* Credential 2 was created without the limits of the first, then used and revoked:
\* validateAPIKey and revokeAPIKey have both written its record back.
C40_Witness ==
  /\ KVHas(apiKeys, PkName(2)) /\ KVHas(apiKeys, IdName(2))
  /\ StoredKey(2).lastUsed # Undefined
  /\ ~StoredKey(2).isActive
  /\ StoredKey(2).rateLimit # FirstKey.rateLimit

====
